---- MODULE Spec2Model ----
(***************************************************************************)
(* Memories Album backend: the album and media-item service layer          *)
(* (album.service, mediaItem.service, mediaItem.controller) over the       *)
(* document store and the external object storage.                         *)
(*                                                                         *)
(* Every request is a process of its own (a slot of req).  One action is   *)
(* taken per awaited database or storage call, together with the           *)
(* synchronous code that follows it up to the next await, so requests      *)
(* interleave exactly at the awaits of the source.                         *)
(***************************************************************************)
EXTENDS Integers, Sequences, FiniteSets

\* ---------------------------------------------------------------- bounds
NumUsers == 2
MaxAlbums == 1
MaxMedia == 1
MaxReq == 2
MaxSlots == 3
MaxFiles == 2
MaxBatch == 3
MaxRegistered == 2
MaxClock == 1
MaxListed == 2

\* upload.array('files', maxCount) of the multi-upload route, upload.single
\* of the single-upload route, and limits.fileSize in megabytes.
MaxCountMultiple == 5
MaxCountSingle == 1
FileSizeLimit == 10

\* config.JWT_EXPIRES_IN, in ticks of the clock.
JwtExpiresIn == 1

Users == 1..NumUsers
AlbumIds == 1..MaxListed
MediaIds == 1..MaxBatch
AssetIds == 1..MaxBatch
Slots == 1..MaxSlots

\* The request slots in use when MaxReq requests run concurrently.
Clients == 1..MaxReq

\* Titles a media item can be given (0: none).
Titles == {0, 1}

VARIABLES albums, media, cloud, nextAlbum, nextMedia, nextAsset, accepted, req,
          users, now

vars == <<albums, media, cloud, nextAlbum, nextMedia, nextAsset, accepted, req,
          users, now>>

\* ------------------------------------------------------- values and types
\* A query that finds nothing returns null.
NoDoc == [exists |-> FALSE]

NoData == [kind |-> "none"]

\* JavaScript values that the code compares with === / !==.
ObjectId(n) == [type |-> "ObjectId", hex |-> n]

Str(n) == [type |-> "string", chars |-> n]

\* ObjectId.prototype.toString(): the hex string of the id.
IdToString(v) == IF v.type = "ObjectId" THEN Str(v.hex) ELSE v

\* === : strings by value; a string never equals an object, and two
\* ObjectId objects of different documents are different references.
StrictEquals(a, b) ==
    /\ a.type = "string"
    /\ b.type = "string"
    /\ a.chars = b.chars

\* req.user!._id.toString()
UserIdOf(u) == IdToString(ObjectId(u))

AlbumDoc(id, owner, isPublic) ==
    [exists |-> TRUE, id |-> id, owner |-> owner, isPublic |-> isPublic,
     mediaItems |-> <<>>, v |-> 0]

MediaDoc(id, album, uploader, publicId, type) ==
    [exists |-> TRUE, id |-> id, album |-> album, uploader |-> uploader,
     cloudinaryPublicId |-> publicId, type |-> type, title |-> 0]

IdleReq ==
    [op |-> "idle", pc |-> "idle", user |-> 0, aid |-> 0, mid |-> 0, arg |-> 0,
     album |-> NoDoc, item |-> NoDoc, found |-> NoDoc, snap |-> NoDoc, input |-> <<>>, files |-> 0, made |-> <<>>,
     asset |-> 0,
     pend |-> {}, list |-> <<>>, destroyed |-> <<>>, status |-> 0, msg |-> "",
     data |-> NoData, eff |-> {}]

NewReq(op, u) == [IdleReq EXCEPT !.op = op, !.user = u, !.pc = "start"]

\* res.status(...).json(...) or next(err): the request is answered.
Respond(r, status, msg, data) ==
    [r EXCEPT !.pc = "done", !.status = status, !.msg = msg, !.data = data,
              !.pend = {}, !.snap = NoDoc]

\* A document written inside another request's open transaction is locked:
\* a plain write waits for it, a transactional write gets a write conflict.
Locked(doc, s) == \E t \in Slots \ {s} : doc \in req[t].pend

AlbumKey(a) == <<"album", a>>

MediaKey(m) == <<"media", m>>

\* fileUploadSchema.parse({ albumId }): albumId is z.string().min(1).
FileUploadSchemaAccepts(albumId) == albumId.type = "string"

\* The album path of a loaded media item, as it is handed to
\* fileUploadSchema.parse and Album.findById.
AlbumRefOf(item) == Str(item.album)

\* ------------------------------------------------------ permission checks
IsAlbumOwnerAnyone(album, userId) == TRUE

\* album.owner.toString() === userId
IsAlbumOwner(album, userId) ==
    StrictEquals(IdToString(ObjectId(album.owner)), userId)

CanAccessAlbumAnyone(album, userId) == TRUE

CanAccessAlbum(album, userId) ==
    album.isPublic \/ IsAlbumOwner(album, userId)

IsUploader(item, userId) ==
    StrictEquals(IdToString(ObjectId(item.uploader)), userId)

\* ------------------------------------------------------------------ Init
Init ==
    /\ albums = [a \in AlbumIds |-> NoDoc]
    /\ media = [m \in MediaIds |-> NoDoc]
    /\ cloud = {}
    /\ nextAlbum = 1
    /\ nextMedia = 1
    /\ nextAsset = 1
    /\ accepted = 0
    /\ req = [s \in Slots |-> IdleReq]
    /\ users = <<>>
    /\ now = 0

\* ----------------------------------------------------------------- albums
CreateAlbum(s, u, isPublic) ==
    /\ req[s].op = "idle"
    /\ nextAlbum <= MaxListed
    /\ albums' = [albums EXCEPT ![nextAlbum] = AlbumDoc(nextAlbum, u, isPublic)]
    /\ nextAlbum' = nextAlbum + 1
    /\ req' = [req EXCEPT ![s] =
                 Respond([NewReq("createAlbum", u) EXCEPT
                            !.aid = nextAlbum, !.eff = {"albumCreate"}],
                         201, "", [kind |-> "album", album |-> albums'[nextAlbum]])]
    /\ UNCHANGED <<media, cloud, nextMedia, nextAsset, accepted, users, now>>

GetAlbumByIdResult(r, album) ==
    IF ~album.exists
    THEN Respond(r, 404, "Album not found", NoData)
    ELSE IF ~CanAccessAlbum(album, UserIdOf(r.user))
    THEN Respond(r, 403, "You do not have permission to access this album", NoData)
    ELSE Respond(r, 200, "", [kind |-> "album", album |-> album])

GetAlbumById(s, u, a) ==
    /\ req[s].op = "idle"
    /\ LET r == [NewReq("getAlbumById", u) EXCEPT !.aid = a, !.album = albums[a]]
       IN req' = [req EXCEPT ![s] = GetAlbumByIdResult(r, albums[a])]
    /\ UNCHANGED <<albums, media, cloud, nextAlbum, nextMedia, nextAsset, accepted, users, now>>

UpdateAlbumCheckOwnerFirst(r, album) ==
    IF ~album.exists \/ ~IsAlbumOwner(album, UserIdOf(r.user))
    THEN Respond(r, 403, "You do not have permission to update this album", NoData)
    ELSE [r EXCEPT !.pc = "save"]

UpdateAlbumCheck(r, album) ==
    IF ~album.exists
    THEN Respond(r, 404, "Album not found", NoData)
    ELSE IF ~IsAlbumOwner(album, UserIdOf(r.user))
    THEN Respond(r, 403, "You do not have permission to update this album", NoData)
    ELSE [r EXCEPT !.pc = "save"]

\* A request body, a validated body and a document are all functions from
\* field names to values.  z.object(...) keeps the keys of its shape and
\* strips every other key of the body.
UpdateAlbumSchemaKeys == {"name", "description", "isPublic", "coverImageUrl"}

UpdateAlbumSchemaPassthrough(body) == body

\* updateAlbumSchema.parse(req.body)
UpdateAlbumSchemaParse(body) ==
    [k \in DOMAIN body \cap UpdateAlbumSchemaKeys |-> body[k]]

\* Object.assign(target, source)
ObjectAssign(target, source) ==
    [f \in DOMAIN target \cup DOMAIN source |->
        IF f \in DOMAIN source THEN source[f] ELSE target[f]]

UpdateAlbumFind(s, u, a, body) ==
    /\ req[s].op = "idle"
    /\ LET r == [NewReq("updateAlbum", u) EXCEPT
                   !.aid = a, !.input = body, !.arg = UpdateAlbumSchemaParse(body),
                   !.album = albums[a]]
       IN req' = [req EXCEPT ![s] = UpdateAlbumCheck(r, albums[a])]
    /\ UNCHANGED <<albums, media, cloud, nextAlbum, nextMedia, nextAsset, accepted, users, now>>

\* Object.assign(album, updateData); album.save(): save() writes the paths
\* whose value differs from the loaded document, and rejects with
\* DocumentNotFoundError when the document is gone.
UpdateAlbumSave(s) ==
    LET r == req[s]
        a == r.aid
        modified == {k \in DOMAIN r.arg : r.arg[k] # r.album[k]}
    IN
    /\ r.op = "updateAlbum"
    /\ r.pc = "save"
    /\ ~Locked(AlbumKey(a), s)
    /\ IF ~albums[a].exists
       THEN /\ req' = [req EXCEPT ![s] = Respond(r, 500, "Server Error", NoData)]
            /\ UNCHANGED albums
       ELSE /\ albums' = [albums EXCEPT ![a] =
                            [f \in DOMAIN @ |-> IF f \in modified THEN r.arg[f] ELSE @[f]]]
            /\ req' = [req EXCEPT ![s] =
                         Respond([r EXCEPT !.eff = @ \cup {"albumSave"}], 200, "",
                                 [kind |-> "album",
                                  album |-> ObjectAssign(r.album, r.arg)])]
    /\ UNCHANGED <<media, cloud, nextAlbum, nextMedia, nextAsset, accepted, users, now>>

\* A query condition { owner: userId }: the string is cast to an ObjectId
\* and compared with the stored one by value.
OwnerIs(album, userId) == userId.type = "string" /\ userId.chars = album.owner

GetAlbumsFilterAll(album, userId) == TRUE

\* { $or: [{ owner: userId }, { isPublic: true }] }
GetAlbumsFilter(album, userId) == OwnerIs(album, userId) \/ album.isPublic

\* { owner: userId }
GetMyAlbumsFilter(album, userId) == OwnerIs(album, userId)

\* .sort({ createdAt: -1 }): newest first; albums are created in id order.
RECURSIVE NewestFirst(_)
NewestFirst(ids) ==
    IF ids = {} THEN <<>>
    ELSE LET newest == CHOOSE a \in ids : \A b \in ids : b <= a
         IN  <<albums[newest]>> \o NewestFirst(ids \ {newest})

AlbumList(list) == [kind |-> "albums", albums |-> list, results |-> Len(list)]

\* GET /api/albums
GetAlbums(s, u) ==
    /\ req[s].op = "idle"
    /\ LET found == {a \in AlbumIds :
                       albums[a].exists /\ GetAlbumsFilter(albums[a], UserIdOf(u))}
       IN  req' = [req EXCEPT ![s] =
                     Respond(NewReq("getAlbums", u), 200, "",
                             AlbumList(NewestFirst(found)))]
    /\ UNCHANGED <<albums, media, cloud, nextAlbum, nextMedia, nextAsset, accepted, users, now>>

\* GET /api/albums/my
GetMyAlbums(s, u) ==
    /\ req[s].op = "idle"
    /\ LET found == {a \in AlbumIds :
                       albums[a].exists /\ GetMyAlbumsFilter(albums[a], UserIdOf(u))}
       IN  req' = [req EXCEPT ![s] =
                     Respond(NewReq("getMyAlbums", u), 200, "",
                             AlbumList(NewestFirst(found)))]
    /\ UNCHANGED <<albums, media, cloud, nextAlbum, nextMedia, nextAsset, accepted, users, now>>

\* --------------------------------------------------------- error mapping
\* Errors a database call can reject with, by Error.name.
DbFailures == {"MongoServerError"}

Outcomes == {"ok"} \cup DbFailures

MongooseErrors == {"DocumentNotFoundError", "VersionError"}

\* errorHandler: an error that is no HttpError, ZodError, ValidationError,
\* CastError or duplicate-key error keeps the default 500 'Server Error'.
ErrorHandler(kind) == [status |-> 500, msg |-> "Server Error"]

\* handleServiceError, then the error middleware for what it rethrows.
HandleServiceError(kind) ==
    IF kind = "ZodError"
    THEN [status |-> 400, msg |-> "Validation error"]
    ELSE IF kind \in MongooseErrors
    THEN [status |-> 400, msg |-> kind]
    ELSE IF kind = "MongoServerError"
    THEN [status |-> 409, msg |-> "Duplicate key error"]
    ELSE ErrorHandler(kind)

\* A write conflict with another open transaction is a MongoServerError.
Failure(outcome) == IF outcome = "ok" THEN "MongoServerError" ELSE outcome

\* catch { await session.abortTransaction(); session.endSession(); throw }
Abort(r, err) ==
    Respond([r EXCEPT !.eff = @ \cup {"abort"}], err.status, err.msg, NoData)

\* ------------------------------------------------------------ deleteAlbum
DeleteAlbumCheckNoOwner(r, album) ==
    IF ~album.exists
    THEN Respond(r, 404, "Album not found", NoData)
    ELSE [r EXCEPT !.pc = "deleteMany"]

DeleteAlbumCheck(r, album) ==
    IF ~album.exists
    THEN Respond(r, 404, "Album not found", NoData)
    ELSE IF ~IsAlbumOwner(album, UserIdOf(r.user))
    THEN Respond(r, 403, "You do not have permission to delete this album", NoData)
    ELSE [r EXCEPT !.pc = "deleteMany"]

DeleteAlbumFind(s, u, a) ==
    /\ req[s].op = "idle"
    /\ LET r == [NewReq("deleteAlbum", u) EXCEPT !.aid = a, !.album = albums[a]]
       IN req' = [req EXCEPT ![s] = DeleteAlbumCheck(r, albums[a])]
    /\ UNCHANGED <<albums, media, cloud, nextAlbum, nextMedia, nextAsset, accepted, users, now>>

\* The media items a deleteMany({ album: albumId }) matches.
MediaOfAlbum(a) == {m \in MediaIds : media[m].exists /\ media[m].album = a}

MediaAfterDeleteManyNoSession(a) ==
    [m \in MediaIds |-> IF m \in MediaOfAlbum(a) THEN NoDoc ELSE media[m]]

\* What the other requests see of the media collection once deleteMany has
\* run with { session }: nothing yet, the write belongs to the transaction.
MediaAfterDeleteMany(a) == media

\* MediaItem.deleteMany({ album: albumId }, { session })
DeleteAlbumDeleteMany(s, outcome) ==
    LET r == req[s]
        a == r.aid
        hit == {MediaKey(m) : m \in MediaOfAlbum(a)}
        conflict == \E d \in hit : Locked(d, s)
    IN
    /\ r.op = "deleteAlbum"
    /\ r.pc = "deleteMany"
    /\ IF outcome # "ok" \/ conflict
       THEN /\ req' = [req EXCEPT ![s] =
                         Abort([r EXCEPT !.eff = @ \cup {"deleteMany"}],
                               ErrorHandler(Failure(outcome)))]
            /\ UNCHANGED media
       ELSE /\ req' = [req EXCEPT ![s] =
                         [r EXCEPT !.pc = "deleteDoc", !.pend = hit,
                                   !.snap = albums[a],
                                   !.eff = @ \cup {"deleteMany"}]]
            /\ media' = MediaAfterDeleteMany(a)
    /\ UNCHANGED <<albums, cloud, nextAlbum, nextMedia, nextAsset, accepted, users, now>>

\* A transaction reads from the snapshot taken by its first operation; a
\* write to a document that was written after that snapshot is a write
\* conflict.
WrittenSince(doc, snapshot) == doc # snapshot

\* Album.findByIdAndDelete(albumId, { session })
DeleteAlbumDoc(s, outcome) ==
    LET r == req[s]
        a == r.aid
    IN
    /\ r.op = "deleteAlbum"
    /\ r.pc = "deleteDoc"
    /\ req' = [req EXCEPT ![s] =
                 IF \/ outcome # "ok"
                    \/ Locked(AlbumKey(a), s)
                    \/ WrittenSince(albums[a], r.snap)
                 THEN Abort([r EXCEPT !.eff = @ \cup {"albumDelete"}],
                            ErrorHandler(Failure(outcome)))
                 ELSE [r EXCEPT !.pc = "commit",
                                !.pend = @ \cup {AlbumKey(a)},
                                !.eff = @ \cup {"albumDelete"}]]
    /\ UNCHANGED <<albums, media, cloud, nextAlbum, nextMedia, nextAsset, accepted, users, now>>

\* session.commitTransaction(): the transaction's writes become visible
\* together.
CommitMedia(pend) ==
    [m \in MediaIds |-> IF MediaKey(m) \in pend THEN NoDoc ELSE media[m]]

CloudAfterDeleteAlbumCleaned(pend) ==
    cloud \ {media[m].cloudinaryPublicId : m \in {x \in MediaIds : MediaKey(x) \in pend}}

\* External storage once deleteAlbum has committed: the service makes no
\* storage call, so every asset is where it was.
CloudAfterDeleteAlbum(pend) == cloud

DeleteAlbumCommit(s, outcome) ==
    LET r == req[s]
        a == r.aid
    IN
    /\ r.op = "deleteAlbum"
    /\ r.pc = "commit"
    /\ IF outcome # "ok"
       THEN /\ req' = [req EXCEPT ![s] = Abort(r, ErrorHandler(Failure(outcome)))]
            /\ UNCHANGED <<albums, media, cloud>>
       ELSE /\ media' = CommitMedia(r.pend)
            /\ albums' = [albums EXCEPT ![a] = NoDoc]
            /\ cloud' = CloudAfterDeleteAlbum(r.pend)
            /\ req' = [req EXCEPT ![s] =
                         Respond([r EXCEPT !.eff = @ \cup {"commit"}], 200,
                                 "Album deleted successfully", NoData)]
    /\ UNCHANGED <<nextAlbum, nextMedia, nextAsset, accepted, users, now>>

\* ------------------------------------------------------------ media upload
\* uploadMedia / uploadMultipleMedia up to the first file: the file check,
\* then Album.findById and the owner check of the controller.
UploadCheckNoOwner(r, album, noFileMsg) ==
    IF r.files = 0
    THEN Respond(r, 400, noFileMsg, NoData)
    ELSE IF ~album.exists
    THEN Respond(r, 404, "Album not found", NoData)
    ELSE [r EXCEPT !.pc = "cloudUp"]

UploadCheck(r, album, noFileMsg) ==
    IF r.files = 0
    THEN Respond(r, 400, noFileMsg, NoData)
    ELSE IF ~album.exists
    THEN Respond(r, 404, "Album not found", NoData)
    ELSE IF ~IsAlbumOwner(album, UserIdOf(r.user))
    THEN Respond(r, 403, "You do not have permission to add media to this album",
                 NoData)
    ELSE [r EXCEPT !.pc = "cloudUp"]

\* ------------------------------------------------------- upload middleware
\* An uploaded file part: its MIME type as <<type, subtype>> and its size in
\* megabytes.
File(type, subtype, size) == [mimetype |-> <<type, subtype>>, size |-> size]

FileFilterAny(file) == TRUE

\* fileFilter: mimetype.startsWith('image/') || mimetype.startsWith('video/')
FileFilter(file) == file.mimetype[1] = "image" \/ file.mimetype[1] = "video"

\* multer on the parts of the request in order: a part beyond maxCount is
\* LIMIT_UNEXPECTED_FILE, then the fileFilter, then the size limit while the
\* part is read; the first error ends the request.
RECURSIVE MulterError(_, _, _)
MulterError(files, i, maxCount) ==
    IF i > Len(files) THEN "ok"
    ELSE IF i > maxCount THEN "LIMIT_UNEXPECTED_FILE"
    ELSE IF ~FileFilter(files[i]) THEN "fileFilter"
    ELSE IF files[i].size > FileSizeLimit THEN "LIMIT_FILE_SIZE"
    ELSE MulterError(files, i + 1, maxCount)

\* handleMulterError, and the 400 of the fileFilter passed on to errorHandler.
HandleMulterError(code) ==
    IF code = "LIMIT_FILE_SIZE" THEN "File too large. Maximum size is 10MB"
    ELSE IF code = "LIMIT_UNEXPECTED_FILE"
    THEN "Too many files or unexpected field name"
    ELSE "Only image and video files are allowed"

MaxCountOf(op) == IF op = "uploadMedia" THEN MaxCountSingle ELSE MaxCountMultiple

\* The route of an upload: the multer middleware, then the controller.
UploadStart(s, op, noFileMsg, u, a, files) ==
    /\ req[s].op = "idle"
    /\ LET n == Len(files)
           code == MulterError(files, 1, MaxCountOf(op))
           r == [NewReq(op, u) EXCEPT !.aid = a, !.input = files, !.files = n]
           q == IF code # "ok"
                THEN Respond(r, 400, HandleMulterError(code), NoData)
                ELSE UploadCheck([r EXCEPT !.album = IF n = 0 THEN NoDoc ELSE albums[a]],
                                 albums[a], noFileMsg)
       IN /\ req' = [req EXCEPT ![s] = q]
          /\ accepted' = IF q.pc = "cloudUp" THEN accepted + n ELSE accepted
    /\ UNCHANGED <<albums, media, cloud, nextAlbum, nextMedia, nextAsset, users, now>>

UploadMedia(s, u, a, files) ==
    UploadStart(s, "uploadMedia", "No file uploaded", u, a, files)

UploadMultipleMedia(s, u, a, files) ==
    UploadStart(s, "uploadMultipleMedia", "No files uploaded", u, a, files)

IsUpload(r) == r.op \in {"uploadMedia", "uploadMultipleMedia"}

CurrentFileFromEnd(r) == r.input[r.files]

\* for (const file of files): the file being processed, in request order.
CurrentFile(r) == r.input[Len(r.input) - r.files + 1]

\* file.mimetype.startsWith('image/') ? 'image' : 'video'
MediaType(file) == IF file.mimetype[1] = "image" THEN "image" ELSE "video"

UploadFailedAnswersCreated(r, e) == Respond(r, 201, "", NoData)

UploadFailedSkipFile(r, e) ==
    IF r.files > 1
    THEN [r EXCEPT !.files = @ - 1, !.pc = "cloudUp"]
    ELSE Respond(r, 201, "", [kind |-> "mediaItems", items |-> r.made,
                              count |-> Len(r.made)])

\* A rejected uploadToCloudinary or createMediaItem leaves the loop and the
\* handler through catch { next(err) }.
UploadFailed(r, e) == Respond(r, e.status, e.msg, NoData)

\* uploadToCloudinary(file): cloudinary.uploader.upload resolves with a new
\* public_id, or rejects and the service throws 500.
UploadToCloudinary(s, ok) ==
    LET r == req[s] IN
    /\ IsUpload(r)
    /\ r.pc = "cloudUp"
    /\ IF ok
       THEN /\ cloud' = cloud \cup {nextAsset}
            /\ nextAsset' = nextAsset + 1
            /\ req' = [req EXCEPT ![s] =
                         [r EXCEPT !.pc = "svcFind", !.asset = nextAsset,
                                   !.eff = @ \cup {"cloudUpload"}]]
       ELSE /\ req' = [req EXCEPT ![s] =
                         UploadFailed([r EXCEPT !.eff = @ \cup {"cloudUpload"}],
                                      [status |-> 500,
                                       msg |-> "Failed to upload file to Cloudinary"])]
            /\ UNCHANGED <<cloud, nextAsset>>
    /\ UNCHANGED <<albums, media, nextAlbum, nextMedia, accepted, users, now>>

CreateMediaItemCheck(r, album) ==
    IF ~FileUploadSchemaAccepts(Str(r.aid))
    THEN Respond(r, 400, "Validation error", NoData)
    ELSE IF ~album.exists
    THEN Respond(r, 404, "Album not found", NoData)
    ELSE IF ~IsAlbumOwner(album, UserIdOf(r.user))
    THEN Respond(r, 403, "You do not have permission to add media to this album",
                 NoData)
    ELSE [r EXCEPT !.pc = "create"]

\* createMediaItem: Album.findById(albumId) and the owner check.
CreateMediaItemFind(s) ==
    LET r == req[s] IN
    /\ IsUpload(r)
    /\ r.pc = "svcFind"
    /\ req' = [req EXCEPT ![s] =
                 CreateMediaItemCheck([r EXCEPT !.album = albums[r.aid]],
                                      albums[r.aid])]
    /\ UNCHANGED <<albums, media, cloud, nextAlbum, nextMedia, nextAsset, accepted, users, now>>

\* MediaItem.create({ ...restData, uploader: userId, album: albumId })
CreateMediaItemCreate(s, outcome) ==
    LET r == req[s] IN
    /\ IsUpload(r)
    /\ r.pc = "create"
    /\ IF outcome # "ok"
       THEN /\ req' = [req EXCEPT ![s] = UploadFailed(r, HandleServiceError(outcome))]
            /\ UNCHANGED <<media, nextMedia>>
       ELSE /\ media' = [media EXCEPT ![nextMedia] =
                           MediaDoc(nextMedia, r.aid, r.user, r.asset,
                                    MediaType(CurrentFile(r)))]
            /\ nextMedia' = nextMedia + 1
            /\ req' = [req EXCEPT ![s] =
                         [r EXCEPT !.pc = "push", !.mid = nextMedia,
                                   !.eff = @ \cup {"mediaCreate"}]]
    /\ UNCHANGED <<albums, cloud, nextAlbum, nextAsset, accepted, users, now>>

\* After createMediaItem returned: the next file of the loop, or the 201.
AfterFile(r) ==
    LET q == [r EXCEPT !.made = Append(@, r.mid), !.files = @ - 1,
                       !.eff = @ \cup {"albumSave"}]
    IN IF q.files > 0
       THEN [q EXCEPT !.pc = "cloudUp"]
       ELSE IF q.op = "uploadMedia"
       THEN Respond(q, 201, "", [kind |-> "mediaItem", item |-> r.mid])
       ELSE Respond(q, 201, "", [kind |-> "mediaItems", items |-> q.made,
                                 count |-> Len(q.made)])

\* album.mediaItems.push(mediaItem._id); album.save(): a $push of the new id
\* on the stored array (the version is incremented, not compared).
CreateMediaItemPush(s) ==
    LET r == req[s]
        a == r.aid
    IN
    /\ IsUpload(r)
    /\ r.pc = "push"
    /\ ~Locked(AlbumKey(a), s)
    /\ IF ~albums[a].exists
       THEN /\ req' = [req EXCEPT ![s] =
                         UploadFailed(r, HandleServiceError("DocumentNotFoundError"))]
            /\ UNCHANGED albums
       ELSE /\ albums' = [albums EXCEPT ![a].mediaItems = Append(@, r.mid),
                                        ![a].v = @ + 1]
            /\ req' = [req EXCEPT ![s] = AfterFile(r)]
    /\ UNCHANGED <<media, cloud, nextAlbum, nextMedia, nextAsset, accepted, users, now>>

\* ------------------------------------------------------------- media reads
GetMediaItemsByAlbumCheck(r, album) ==
    IF ~FileUploadSchemaAccepts(Str(r.aid))
    THEN Respond(r, 400, "Validation error", NoData)
    ELSE IF ~album.exists
    THEN Respond(r, 404, "Album not found", NoData)
    ELSE IF ~CanAccessAlbum(album, UserIdOf(r.user))
    THEN Respond(r, 403, "You do not have permission to access this album", NoData)
    ELSE [r EXCEPT !.pc = "list"]

GetMediaItemsByAlbumFind(s, u, a) ==
    /\ req[s].op = "idle"
    /\ LET r == [NewReq("getMediaItemsByAlbum", u) EXCEPT
                   !.aid = a, !.album = albums[a]]
       IN req' = [req EXCEPT ![s] = GetMediaItemsByAlbumCheck(r, albums[a])]
    /\ UNCHANGED <<albums, media, cloud, nextAlbum, nextMedia, nextAsset, accepted, users, now>>

\* MediaItem.find({ album: albumId })
GetMediaItemsByAlbumList(s) ==
    LET r == req[s] IN
    /\ r.op = "getMediaItemsByAlbum"
    /\ r.pc = "list"
    /\ req' = [req EXCEPT ![s] =
                 Respond(r, 200, "",
                         [kind |-> "mediaItems", items |-> MediaOfAlbum(r.aid)])]
    /\ UNCHANGED <<albums, media, cloud, nextAlbum, nextMedia, nextAsset, accepted, users, now>>

\* MediaItem.findById(mediaItemId) of getMediaItemById and deleteMediaItem:
\* the 404, or the loaded item and the parse of its album reference.
FoundItem(r, item, nextPc) ==
    IF ~item.exists
    THEN Respond(r, 404, "Media item not found", NoData)
    ELSE IF ~FileUploadSchemaAccepts(AlbumRefOf(item))
    THEN Respond(r, 400, "Validation error", NoData)
    ELSE [r EXCEPT !.pc = nextPc, !.aid = AlbumRefOf(item).chars]

FindItem(s, op, u, m, arg, nextPc) ==
    /\ req[s].op = "idle"
    /\ LET r == [NewReq(op, u) EXCEPT !.mid = m, !.arg = arg, !.item = media[m]]
       IN req' = [req EXCEPT ![s] = FoundItem(r, media[m], nextPc)]
    /\ UNCHANGED <<albums, media, cloud, nextAlbum, nextMedia, nextAsset, accepted, users, now>>

GetMediaItemByIdFind(s, u, m) == FindItem(s, "getMediaItemById", u, m, 0, "findAlbum")

GetMediaItemByIdCheck(r, album) ==
    IF ~album.exists
    THEN Respond(r, 404, "Album not found", NoData)
    ELSE IF ~CanAccessAlbum(album, UserIdOf(r.user))
    THEN Respond(r, 403, "You do not have permission to access this media item",
                 NoData)
    ELSE Respond(r, 200, "", [kind |-> "mediaItem", item |-> r.item])

\* Album.findById(mediaItem.album) and the access check.
GetMediaItemByIdAlbum(s) ==
    LET r == req[s] IN
    /\ r.op = "getMediaItemById"
    /\ r.pc = "findAlbum"
    /\ req' = [req EXCEPT ![s] =
                 GetMediaItemByIdCheck([r EXCEPT !.album = albums[r.aid]],
                                       albums[r.aid])]
    /\ UNCHANGED <<albums, media, cloud, nextAlbum, nextMedia, nextAsset, accepted, users, now>>

\* --------------------------------------------------------- updateMediaItem
UpdateMediaItemCheckNoUploader(r, item) ==
    IF ~item.exists
    THEN Respond(r, 404, "Media item not found", NoData)
    ELSE [r EXCEPT !.pc = "save", !.aid = item.album]

UpdateMediaItemCheck(r, item) ==
    IF ~item.exists
    THEN Respond(r, 404, "Media item not found", NoData)
    ELSE IF ~IsUploader(item, UserIdOf(r.user))
    THEN Respond(r, 403, "You do not have permission to update this media item",
                 NoData)
    ELSE [r EXCEPT !.pc = "save", !.aid = item.album]

UpdateMediaItemFind(s, u, m, title) ==
    /\ req[s].op = "idle"
    /\ LET r == [NewReq("updateMediaItem", u) EXCEPT
                   !.mid = m, !.arg = title, !.item = media[m]]
       IN req' = [req EXCEPT ![s] = UpdateMediaItemCheck(r, media[m])]
    /\ UNCHANGED <<albums, media, cloud, nextAlbum, nextMedia, nextAsset, accepted, users, now>>

\* Object.assign(mediaItem, updateData); mediaItem.save()
UpdateMediaItemSave(s) ==
    LET r == req[s]
        m == r.mid
        modified == r.arg # r.item.title
    IN
    /\ r.op = "updateMediaItem"
    /\ r.pc = "save"
    /\ ~Locked(MediaKey(m), s)
    /\ IF ~media[m].exists
       THEN /\ req' = [req EXCEPT ![s] =
                         LET e == HandleServiceError("DocumentNotFoundError")
                         IN Respond(r, e.status, e.msg, NoData)]
            /\ UNCHANGED media
       ELSE /\ media' = IF modified THEN [media EXCEPT ![m].title = r.arg] ELSE media
            /\ req' = [req EXCEPT ![s] =
                         Respond([r EXCEPT !.eff = @ \cup {"mediaSave"}], 200, "",
                                 [kind |-> "mediaItem",
                                  item |-> [r.item EXCEPT !.title = r.arg]])]
    /\ UNCHANGED <<albums, cloud, nextAlbum, nextMedia, nextAsset, accepted, users, now>>

\* --------------------------------------------------------- deleteMediaItem
DeleteMediaItemFind(s, u, m) == FindItem(s, "deleteMediaItem", u, m, 0, "findAlbum")

DeleteMediaItemCheckNoPermission(r, album) ==
    IF ~album.exists
    THEN Respond(r, 404, "Album not found", NoData)
    ELSE [r EXCEPT !.pc = "txDelete"]

DeleteMediaItemCheckDestroyFirst(r, album) ==
    IF ~album.exists
    THEN Respond(r, 404, "Album not found", NoData)
    ELSE IF ~IsUploader(r.item, UserIdOf(r.user))
            /\ ~IsAlbumOwner(album, UserIdOf(r.user))
    THEN Respond(r, 403, "You do not have permission to delete this media item",
                 NoData)
    ELSE [r EXCEPT !.pc = "destroy"]

DeleteMediaItemCheck(r, album) ==
    IF ~album.exists
    THEN Respond(r, 404, "Album not found", NoData)
    ELSE IF ~IsUploader(r.item, UserIdOf(r.user))
            /\ ~IsAlbumOwner(album, UserIdOf(r.user))
    THEN Respond(r, 403, "You do not have permission to delete this media item",
                 NoData)
    ELSE [r EXCEPT !.pc = "txDelete"]

\* Album.findById(mediaItem.album) and the uploader-or-owner check.
DeleteMediaItemAlbum(s) ==
    LET r == req[s] IN
    /\ r.op = "deleteMediaItem"
    /\ r.pc = "findAlbum"
    /\ req' = [req EXCEPT ![s] =
                 DeleteMediaItemCheck([r EXCEPT !.album = albums[r.aid]],
                                      albums[r.aid])]
    /\ UNCHANGED <<albums, media, cloud, nextAlbum, nextMedia, nextAsset, accepted, users, now>>

\* MediaItem.findByIdAndDelete(mediaItemId, { session })
DeleteMediaItemDelete(s, outcome) ==
    LET r == req[s]
        m == r.mid
    IN
    /\ r.op = "deleteMediaItem"
    /\ r.pc = "txDelete"
    /\ req' = [req EXCEPT ![s] =
                 IF outcome # "ok" \/ Locked(MediaKey(m), s)
                 THEN Abort([r EXCEPT !.eff = @ \cup {"mediaDelete"}],
                            HandleServiceError(Failure(outcome)))
                 ELSE [r EXCEPT !.pc = "saveAlbum",
                                !.pend = IF media[m].exists THEN {MediaKey(m)} ELSE {},
                                !.eff = @ \cup {"mediaDelete"}]]
    /\ UNCHANGED <<albums, media, cloud, nextAlbum, nextMedia, nextAsset, accepted, users, now>>

\* The callback of album.mediaItems.filter: id => id.toString() !== mediaItem._id
\* where id is an ObjectId of the album's array and mediaItem._id the
\* ObjectId of the loaded media item.
KeepsId(id, item) == ~StrictEquals(IdToString(ObjectId(id)), ObjectId(item.id))

FilterMediaItems(list, item) ==
    LET keep(id) == KeepsId(id, item) IN SelectSeq(list, keep)

\* album.mediaItems = album.mediaItems.filter(...); album.save({ session }):
\* an array assigned a different value is $set under the version the album
\* was loaded with (VersionError when it moved); an unmodified document is
\* only looked up (DocumentNotFoundError when it is gone).
DeleteMediaItemSaveAlbum(s, outcome) ==
    LET r == req[s]
        a == r.aid
        newList == FilterMediaItems(r.album.mediaItems, r.item)
        modified == newList # r.album.mediaItems
        err == IF outcome # "ok" THEN outcome
               ELSE IF ~albums[a].exists THEN "DocumentNotFoundError"
               ELSE IF modified /\ Locked(AlbumKey(a), s) THEN "MongoServerError"
               ELSE IF modified /\ albums[a].v # r.album.v THEN "VersionError"
               ELSE "ok"
    IN
    /\ r.op = "deleteMediaItem"
    /\ r.pc = "saveAlbum"
    /\ req' = [req EXCEPT ![s] =
                 IF err # "ok"
                 THEN Abort([r EXCEPT !.eff = @ \cup {"albumSave"}],
                            HandleServiceError(err))
                 ELSE [r EXCEPT !.pc = "commit", !.list = newList,
                                !.pend = IF modified THEN @ \cup {AlbumKey(a)} ELSE @,
                                !.eff = @ \cup {"albumSave"}]]
    /\ UNCHANGED <<albums, media, cloud, nextAlbum, nextMedia, nextAsset, accepted, users, now>>

\* session.commitTransaction(); session.endSession()
DeleteMediaItemCommit(s, outcome) ==
    LET r == req[s]
        a == r.aid
    IN
    /\ r.op = "deleteMediaItem"
    /\ r.pc = "commit"
    /\ IF outcome # "ok"
       THEN /\ req' = [req EXCEPT ![s] = Abort(r, HandleServiceError(outcome))]
            /\ UNCHANGED <<albums, media>>
       ELSE /\ media' = CommitMedia(r.pend)
            /\ albums' = IF AlbumKey(a) \in r.pend
                         THEN [albums EXCEPT ![a].mediaItems = r.list, ![a].v = @ + 1]
                         ELSE albums
            /\ req' = [req EXCEPT ![s] =
                         [r EXCEPT !.pc = "destroy", !.pend = {},
                                   !.eff = @ \cup {"commit"}]]
    /\ UNCHANGED <<cloud, nextAlbum, nextMedia, nextAsset, accepted, users, now>>

\* cloudinary.uploader.destroy rejected inside the try block: the catch
\* calls abortTransaction on the committed session (nothing is rolled back)
\* and an error that is no HttpError reaches the error middleware.
DestroyFailed(r) == Abort(r, ErrorHandler("Error"))

\* await cloudinary.uploader.destroy(mediaItem.cloudinaryPublicId)
DeleteMediaItemDestroy(s, ok) ==
    /\ req[s].op = "deleteMediaItem"
    /\ req[s].pc = "destroy"
    /\ LET publicId == req[s].item.cloudinaryPublicId
           r == [req[s] EXCEPT !.destroyed = Append(@, publicId),
                               !.eff = @ \cup {"cloudDestroy"}]
       IN IF ok
          THEN /\ cloud' = cloud \ {publicId}
               /\ req' = [req EXCEPT ![s] =
                            Respond(r, 200, "Media item deleted successfully", NoData)]
          ELSE /\ req' = [req EXCEPT ![s] =
                            DestroyFailed([r EXCEPT !.eff = @ \cup {"destroyFailed"}])]
               /\ UNCHANGED cloud
    /\ UNCHANGED <<albums, media, nextAlbum, nextMedia, nextAsset, accepted, users, now>>

\* The response has been delivered; the slot serves the next request.
Retire(s) ==
    /\ req[s].pc = "done"
    /\ req' = [req EXCEPT ![s] = IdleReq]
    /\ UNCHANGED <<albums, media, cloud, nextAlbum, nextMedia, nextAsset, accepted, users, now>>

\* The uploads tried: up to n parts, all of them images of 1MB except at
\* most one, which is taken from odd.
GoodFile == File("image", "png", 1)

FilesWith(n, p, file) == [i \in 1..n |-> IF i = p THEN file ELSE GoodFile]

Uploads(n, odd) ==
    {FilesWith(k, 0, GoodFile) : k \in 0..n}
        \cup {FilesWith(k, p, f) : k \in 1..n, p \in 1..n, f \in odd}

OddFiles == {File("text", "plain", 1), File("image", "png", 11), File("video", "mp4", 1)}

\* The media items addressed while at most MaxMedia of them are created.
SomeMediaIds == 1..MaxMedia

\* The albums addressed while at most MaxAlbums of them are created.
SomeAlbumIds == 1..MaxAlbums

\* PATCH bodies that set the visibility.
VisibilityBodies == {[isPublic |-> p] : p \in BOOLEAN}

Next ==
    \E s \in Clients :
        \/ \E u \in Users, p \in BOOLEAN :
              CreateAlbum(s, u, p) /\ nextAlbum <= MaxAlbums
        \/ \E u \in Users, a \in SomeAlbumIds : GetAlbumById(s, u, a)
        \/ \E u \in Users, a \in SomeAlbumIds, b \in VisibilityBodies : UpdateAlbumFind(s, u, a, b)
        \/ UpdateAlbumSave(s)
        \/ \E u \in Users, a \in SomeAlbumIds : DeleteAlbumFind(s, u, a)
        \/ \E o \in Outcomes : DeleteAlbumDeleteMany(s, o)
        \/ \E o \in Outcomes : DeleteAlbumDoc(s, o)
        \/ \E o \in Outcomes : DeleteAlbumCommit(s, o)
        \/ \E u \in Users, a \in SomeAlbumIds, f \in Uploads(MaxFiles, {}) :
              UploadMedia(s, u, a, f) /\ accepted' <= MaxMedia
        \/ \E u \in Users, a \in SomeAlbumIds, f \in Uploads(MaxFiles, {}) :
              UploadMultipleMedia(s, u, a, f) /\ accepted' <= MaxMedia
        \/ \E ok \in BOOLEAN : UploadToCloudinary(s, ok)
        \/ CreateMediaItemFind(s)
        \/ \E o \in Outcomes : CreateMediaItemCreate(s, o)
        \/ CreateMediaItemPush(s)
        \/ \E u \in Users, a \in SomeAlbumIds : GetMediaItemsByAlbumFind(s, u, a)
        \/ GetMediaItemsByAlbumList(s)
        \/ \E u \in Users, m \in SomeMediaIds : GetMediaItemByIdFind(s, u, m)
        \/ GetMediaItemByIdAlbum(s)
        \/ \E u \in Users, m \in SomeMediaIds, x \in Titles : UpdateMediaItemFind(s, u, m, x)
        \/ UpdateMediaItemSave(s)
        \/ \E u \in Users, m \in SomeMediaIds : DeleteMediaItemFind(s, u, m)
        \/ DeleteMediaItemAlbum(s)
        \/ \E o \in Outcomes : DeleteMediaItemDelete(s, o)
        \/ \E o \in Outcomes : DeleteMediaItemSaveAlbum(s, o)
        \/ \E o \in Outcomes : DeleteMediaItemCommit(s, o)
        \/ \E ok \in BOOLEAN : DeleteMediaItemDestroy(s, ok)
        \/ Retire(s)

Spec == Init /\ [][Next]_vars

\* One client that uploads batches of up to MaxBatch accepted files, with
\* every kind of rejected request.
NextBatch ==
    \/ \E u \in Users, p \in BOOLEAN : CreateAlbum(1, u, p) /\ nextAlbum <= MaxAlbums
    \/ \E u \in Users, a \in SomeAlbumIds, f \in Uploads(MaxCountMultiple + 1, OddFiles) :
          UploadMedia(1, u, a, f) /\ accepted' <= MaxBatch
    \/ \E u \in Users, a \in SomeAlbumIds, f \in Uploads(MaxCountMultiple + 1, OddFiles) :
          UploadMultipleMedia(1, u, a, f) /\ accepted' <= MaxBatch
    \/ \E ok \in BOOLEAN : UploadToCloudinary(1, ok)
    \/ CreateMediaItemFind(1)
    \/ \E o \in Outcomes : CreateMediaItemCreate(1, o)
    \/ CreateMediaItemPush(1)
    \/ Retire(1)

SpecBatch == Init /\ [][NextBatch]_vars

\* ========================================================= authentication
\* Strings whose letter case matters are sequences of characters.
Lower(c) == IF c = "A" THEN "a" ELSE c

\* String.prototype.toLowerCase (z.string().email().toLowerCase()).
ToLowerCase(str) == [i \in DOMAIN str |-> Lower(str[i])]

Emails == {<<"a">>, <<"A">>, <<"b">>}

Usernames == {"ann", "bob"}

Passwords == {"pw1", "pw2"}

\* bcrypt.hash and bcrypt.compare: a hash matches the password it was
\* made from and no other.
Hash(password) == [bcrypt |-> password]

Compare(password, hashed) == hashed.bcrypt = password

UserDoc(id, body) ==
    [exists |-> TRUE, id |-> id, username |-> body.username, email |-> body.email,
     password |-> Hash(body.password)]

\* The user as it is sent back: without the password.
UserResponse(user) ==
    [id |-> user.id, username |-> user.username, email |-> user.email]

JwtSecret == "JWT_SECRET"

\* jwt.sign({ userId }, jwtSecret, { expiresIn }).
Sign(userId, secret, iat, expiresIn) ==
    [userId |-> userId, secret |-> secret, exp |-> iat + expiresIn]

GenerateToken(userId) == Sign(userId, JwtSecret, now, JwtExpiresIn)

\* registerSchema.parse / loginSchema.parse: the email is lower-cased.
ParseBody(body) == [body EXCEPT !.email = ToLowerCase(@)]

\* User.findOne({ $or: [{ email }, { username }] }): the documents that
\* match; the query returns one of them, or null when there is none.
MatchesEither(body) ==
    {i \in 1..Len(users) :
        users[i].email = body.email \/ users[i].username = body.username}

MatchesEmail(email) == {i \in 1..Len(users) : users[i].email = email}

InFlightCreates == Cardinality({s \in Slots : req[s].op = "register" /\ req[s].pc = "create"})

RegisterConflict(existingUser, body) ==
    IF existingUser.email = body.email
    THEN [status |-> 409, msg |-> "Email already in use"]
    ELSE [status |-> 409, msg |-> "Username already taken"]

\* POST /api/auth/register up to the lookup of an existing user.
RegisterFind(s, raw) ==
    /\ req[s].op = "idle"
    /\ LET body == ParseBody(raw)
           r == [NewReq("register", 0) EXCEPT !.input = body]
       IN  \/ /\ MatchesEither(body) = {}
              /\ Len(users) + InFlightCreates < MaxRegistered
              /\ req' = [req EXCEPT ![s] = [r EXCEPT !.pc = "create"]]
           \/ \E i \in MatchesEither(body) :
                 LET e == RegisterConflict(users[i], body)
                 IN  req' = [req EXCEPT ![s] =
                               Respond([r EXCEPT !.found = users[i]],
                                       e.status, e.msg, NoData)]
    /\ UNCHANGED <<albums, media, cloud, nextAlbum, nextMedia, nextAsset, accepted, users, now>>

DuplicateKeysUnindexed(body) == {}

\* The unique indexes of the users collection that a new document violates.
DuplicateKeys(body) ==
    {f \in {"email", "username"} :
        \E i \in 1..Len(users) :
            IF f = "email" THEN users[i].email = body.email
            ELSE users[i].username = body.username}

\* errorHandler on a duplicate key error (code 11000).
DuplicateKeyMessage(field) ==
    IF field = "email" THEN "Email already exists" ELSE "Username already exists"

\* User.create and the 201 response.
RegisterCreate(s) ==
    LET r == req[s]
    IN  /\ r.op = "register"
        /\ r.pc = "create"
        /\ IF DuplicateKeys(r.input) = {}
           THEN LET user == UserDoc(Len(users) + 1, r.input)
                IN  /\ users' = Append(users, user)
                    /\ req' = [req EXCEPT ![s] =
                                 Respond([r EXCEPT !.eff = @ \cup {"userCreate"}],
                                         201, "",
                                         [kind |-> "auth", user |-> UserResponse(user),
                                          token |-> GenerateToken(user.id)])]
           ELSE /\ \E f \in DuplicateKeys(r.input) :
                      req' = [req EXCEPT ![s] =
                                Respond(r, 409, DuplicateKeyMessage(f), NoData)]
                /\ UNCHANGED users
        /\ UNCHANGED <<albums, media, cloud, nextAlbum, nextMedia, nextAsset, accepted, now>>

LoginCheckRevealing(user, password) ==
    IF ~user.exists THEN [status |-> 404, msg |-> "User not found"]
    ELSE IF ~Compare(password, user.password)
    THEN [status |-> 401, msg |-> "Invalid credentials"]
    ELSE [status |-> 200, msg |-> ""]

\* loginUser: the user looked up by email, then the password compared.
LoginCheck(user, password) ==
    IF ~user.exists THEN [status |-> 401, msg |-> "Invalid credentials"]
    ELSE IF ~Compare(password, user.password)
    THEN [status |-> 401, msg |-> "Invalid credentials"]
    ELSE [status |-> 200, msg |-> ""]

\* User.findOne({ email }): emails are unique, so at most one matches.
FindByEmail(email) ==
    IF MatchesEmail(email) = {} THEN NoDoc
    ELSE users[CHOOSE i \in MatchesEmail(email) : TRUE]

\* POST /api/auth/login.
Login(s, raw) ==
    /\ req[s].op = "idle"
    /\ LET body == ParseBody(raw)
           user == FindByEmail(body.email)
           r == [NewReq("login", 0) EXCEPT !.input = body, !.found = user]
           e == LoginCheck(user, body.password)
       IN  req' = [req EXCEPT ![s] =
                     IF e.status = 200
                     THEN Respond(r, 200, "",
                                  [kind |-> "auth", user |-> UserResponse(user),
                                   token |-> GenerateToken(user.id)])
                     ELSE Respond(r, e.status, e.msg, NoData)]
    /\ UNCHANGED <<albums, media, cloud, nextAlbum, nextMedia, nextAsset, accepted, users, now>>

\* The Authorization header: absent, or a scheme followed by a token.
NoHeader == [scheme |-> "none"]

Header(scheme, token) == [scheme |-> scheme, token |-> token]

NoToken == [userId |-> 0]

\* authorization.startsWith('Bearer') and split(' ')[1].
BearerToken(header) ==
    IF header.scheme = "Bearer" THEN header.token ELSE NoToken

VerifyTokenExpiryFirst(token, t) ==
    IF t >= token.exp THEN "TokenExpiredError"
    ELSE IF token.secret # JwtSecret THEN "JsonWebTokenError"
    ELSE "ok"

\* jwt.verify(token, jwtSecret): the signature, then the expiry.
VerifyToken(token, t) ==
    IF token.secret # JwtSecret THEN "JsonWebTokenError"
    ELSE IF t >= token.exp THEN "TokenExpiredError"
    ELSE "ok"

\* The catch block of protect.
JwtErrorMessage(name) ==
    IF name = "JsonWebTokenError" THEN "Not authorized, invalid token"
    ELSE "Not authorized, token expired"

\* protect up to User.findById, on a route of the protected router.
Protect(s, header) ==
    /\ req[s].op = "idle"
    /\ LET r == [NewReq("getMe", 0) EXCEPT !.input = header]
           token == BearerToken(header)
       IN  req' = [req EXCEPT ![s] =
                     IF token = NoToken
                     THEN Respond(r, 401, "Not authorized, no token provided", NoData)
                     ELSE IF VerifyToken(token, now) # "ok"
                     THEN Respond(r, 401, JwtErrorMessage(VerifyToken(token, now)), NoData)
                     ELSE [r EXCEPT !.pc = "findById", !.arg = token.userId]]
    /\ UNCHANGED <<albums, media, cloud, nextAlbum, nextMedia, nextAsset, accepted, users, now>>

\* User.findById(decoded.userId).
FindUserById(id) == IF id \in 1..Len(users) THEN users[id] ELSE NoDoc

\* The rest of protect, requireAuth and the handler getMe.
ProtectFindById(s) ==
    LET r == req[s]
        user == FindUserById(r.arg)
    IN  /\ r.op = "getMe"
        /\ r.pc = "findById"
        /\ req' = [req EXCEPT ![s] =
                     IF ~user.exists
                     THEN Respond(r, 401, "Not authorized, user not found", NoData)
                     ELSE Respond([r EXCEPT !.user = user.id, !.eff = @ \cup {"handler"}],
                                  200, "", [kind |-> "user", user |-> UserResponse(user)])]
        /\ UNCHANGED <<albums, media, cloud, nextAlbum, nextMedia, nextAsset, accepted, users, now>>

\* Time passes.
Tick ==
    /\ now < MaxClock
    /\ now' = now + 1
    /\ UNCHANGED <<albums, media, cloud, nextAlbum, nextMedia, nextAsset, accepted, req, users>>

RegisterBodies == [username : Usernames, email : Emails, password : Passwords]

LoginBodies == [email : Emails, password : Passwords]

\* Tokens signed with the server's secret or another one, for a stored user
\* or for none, already expired (expiresIn '0s') or not.
Tokens ==
    {Sign(u, k, t, e) : u \in 1..(MaxRegistered + 1), k \in {JwtSecret, "forged"},
                        t \in 0..MaxClock, e \in {0, JwtExpiresIn}}

Headers ==
    {NoHeader, Header("Bearer", NoToken)}
        \cup {Header("Bearer", t) : t \in Tokens}
        \cup {Header("Basic", Sign(1, JwtSecret, MaxClock, JwtExpiresIn))}

NextAuth ==
    \/ \E s \in Clients :
          \/ \E b \in RegisterBodies : RegisterFind(s, b)
          \/ RegisterCreate(s)
          \/ \E b \in LoginBodies : Login(s, b)
          \/ \E h \in Headers : Protect(s, h)
          \/ ProtectFindById(s)
          \/ Retire(s)
    \/ Tick

SpecAuth == Init /\ [][NextAuth]_vars

\* One client that uploads up to MaxFiles files, in one request or in
\* two, while another client deletes the album.
NextRace ==
    \/ \E u \in Users, p \in BOOLEAN : CreateAlbum(1, u, p) /\ nextAlbum <= MaxAlbums
    \/ \E u \in Users, a \in SomeAlbumIds, f \in Uploads(MaxFiles, {}) :
          UploadMedia(1, u, a, f) /\ accepted' <= MaxFiles
    \/ \E u \in Users, a \in SomeAlbumIds, f \in Uploads(MaxFiles, {}) :
          UploadMultipleMedia(1, u, a, f) /\ accepted' <= MaxFiles
    \/ \E ok \in BOOLEAN : UploadToCloudinary(1, ok)
    \/ CreateMediaItemFind(1)
    \/ \E o \in Outcomes : CreateMediaItemCreate(1, o)
    \/ CreateMediaItemPush(1)
    \/ \E u \in Users, a \in SomeAlbumIds : DeleteAlbumFind(2, u, a)
    \/ \E o \in Outcomes : DeleteAlbumDeleteMany(2, o)
    \/ \E o \in Outcomes : DeleteAlbumDoc(2, o)
    \/ \E o \in Outcomes : DeleteAlbumCommit(2, o)
    \/ \E s \in Clients : Retire(s)

SpecRace == Init /\ [][NextRace]_vars

\* One client that uploads a file and then reads or deletes the item,
\* while two other clients delete the album.
NextOrphan ==
    \/ \E u \in Users, p \in BOOLEAN : CreateAlbum(1, u, p) /\ nextAlbum <= MaxAlbums
    \/ \E u \in Users, a \in SomeAlbumIds :
          UploadMedia(1, u, a, <<GoodFile>>) /\ accepted' <= MaxMedia
    \/ UploadToCloudinary(1, TRUE)
    \/ CreateMediaItemFind(1)
    \/ CreateMediaItemCreate(1, "ok")
    \/ CreateMediaItemPush(1)
    \/ \E u \in Users, m \in SomeMediaIds : GetMediaItemByIdFind(1, u, m)
    \/ GetMediaItemByIdAlbum(1)
    \/ \E u \in Users, m \in SomeMediaIds : DeleteMediaItemFind(1, u, m)
    \/ DeleteMediaItemAlbum(1)
    \/ DeleteMediaItemDelete(1, "ok")
    \/ DeleteMediaItemSaveAlbum(1, "ok")
    \/ DeleteMediaItemCommit(1, "ok")
    \/ DeleteMediaItemDestroy(1, TRUE)
    \/ \E s \in Slots \ {1} :
          \/ \E u \in Users, a \in SomeAlbumIds : DeleteAlbumFind(s, u, a)
          \/ DeleteAlbumDeleteMany(s, "ok")
          \/ DeleteAlbumDoc(s, "ok")
          \/ DeleteAlbumCommit(s, "ok")
    \/ \E s \in Slots : Retire(s)

SpecOrphan == Init /\ [][NextOrphan]_vars

\* PATCH bodies: any of isPublic, owner and mediaItems, present or not.
EmptyBody == [k \in {} |-> TRUE]

UpdateBodies ==
    {ObjectAssign(ObjectAssign(p, o), m) :
        p \in {EmptyBody} \cup {[isPublic |-> x] : x \in BOOLEAN},
        o \in {EmptyBody} \cup {[owner |-> u] : u \in Users},
        m \in {EmptyBody, [mediaItems |-> <<>>]}}

\* Clients that create, list and delete up to MaxListed albums, while one
\* of them sends updates with every body.
NextAlbums ==
    \/ \E s \in Clients :
          \/ \E u \in Users, p \in BOOLEAN : CreateAlbum(s, u, p)
          \/ \E u \in Users : GetAlbums(s, u)
          \/ \E u \in Users : GetMyAlbums(s, u)
          \/ \E u \in Users, a \in AlbumIds : DeleteAlbumFind(s, u, a)
          \/ DeleteAlbumDeleteMany(s, "ok")
          \/ DeleteAlbumDoc(s, "ok")
          \/ DeleteAlbumCommit(s, "ok")
          \/ Retire(s)
    \/ \E u \in Users, a \in AlbumIds, b \in UpdateBodies : UpdateAlbumFind(1, u, a, b)
    \/ UpdateAlbumSave(1)

SpecAlbums == Init /\ [][NextAlbums]_vars

\* ================================================================ properties
Done(r, op) == r.pc = "done" /\ r.op = op

InList(id, list) == \E i \in 1..Len(list) : list[i] = id

\* C1: reading an album (getAlbumById, getMediaItemsByAlbum) succeeds if
\* and only if the album is public or the requester is its owner: on a
\* private album every other requester gets 403 'You do not have permission
\* to access this album' and no album or media data, and on a public album
\* every requester gets the data.
C1_ReadAccess ==
    \A s \in Slots :
        LET r == req[s] IN
        (r.pc = "done" /\ r.op \in {"getAlbumById", "getMediaItemsByAlbum"}
           /\ r.album.exists) =>
            IF r.album.isPublic \/ r.album.owner = r.user
            THEN r.status = 200 /\ r.data # NoData
            ELSE /\ r.status = 403
                 /\ r.msg = "You do not have permission to access this album"
                 /\ r.data = NoData

C1_Witness ==
    \E s, t \in Slots :
        /\ Done(req[s], "getMediaItemsByAlbum")
        /\ req[s].album.exists
        /\ ~req[s].album.isPublic
        /\ req[s].user # req[s].album.owner
        /\ req[s].status = 403
        /\ Done(req[t], "getAlbumById")
        /\ req[t].album.exists
        /\ req[t].album.isPublic
        /\ req[t].user # req[t].album.owner
        /\ req[t].status = 200

\* C2: updateAlbum and deleteAlbum succeed only for the album's owner; a
\* request of any other user is answered 403 by its first step and that
\* step changes nothing: no album is saved or deleted and no media item is
\* deleted.
C2_OwnerOnlyWrite ==
    [][\A s \in Slots :
          LET q == req'[s] IN
          (q # req[s] /\ q.op \in {"updateAlbum", "deleteAlbum"}
             /\ q.album.exists /\ q.user # q.album.owner) =>
              /\ q.pc = "done"
              /\ q.status = 403
              /\ q.eff = {}
              /\ UNCHANGED <<albums, media, cloud>>]_vars

C2_Witness ==
    \E s, t \in Slots :
        /\ Done(req[s], "deleteAlbum")
        /\ req[s].album.exists
        /\ req[s].user # req[s].album.owner
        /\ req[s].status = 403
        /\ albums[req[s].aid].exists
        /\ MediaOfAlbum(req[s].aid) # {}
        /\ Done(req[t], "updateAlbum")
        /\ req[t].album.exists
        /\ req[t].user # req[t].album.owner
        /\ req[t].status = 403

\* C3: deleteMediaItem is allowed if and only if the requester is the
\* item's uploader or the owner of the containing album: no step of any
\* other requester's deleteMediaItem deletes the item, changes the album or
\* calls the storage, its answer is 403 'You do not have permission to
\* delete this media item', and an uploader or owner is never answered 403.
C3_DeletePermission ==
    [][\A s \in Slots :
          LET q == req'[s] IN
          (q # req[s] /\ q.op = "deleteMediaItem" /\ q.item.exists) =>
              IF q.user # q.item.uploader
                 /\ (q.album.exists => q.user # q.album.owner)
              THEN /\ UNCHANGED <<albums, media, cloud>>
                   /\ q.destroyed = <<>>
                   /\ q.eff = {}
                   /\ (q.pc = "done" /\ q.album.exists) =>
                         /\ q.status = 403
                         /\ q.msg = "You do not have permission to delete this media item"
              ELSE q.pc = "done" => q.status # 403]_vars

C3_Witness ==
    \E s \in Slots :
        /\ Done(req[s], "deleteMediaItem")
        /\ req[s].item.exists
        /\ req[s].album.exists
        /\ req[s].user # req[s].item.uploader
        /\ req[s].user # req[s].album.owner
        /\ req[s].status = 403
        /\ media[req[s].mid].exists
        /\ InList(req[s].mid, albums[req[s].aid].mediaItems)

\* C4: an upload (single-file or multi-file) into an album is allowed only
\* for the album's owner: the request of any other user is answered 403
\* 'You do not have permission to add media to this album' and neither a
\* storage upload nor a MediaItem creation happens.
C4_UploadOwnerOnly ==
    [][\A s \in Slots :
          LET q == req'[s] IN
          (q # req[s] /\ IsUpload(q) /\ q.files > 0 /\ q.album.exists
             /\ q.user # q.album.owner) =>
              /\ q.pc = "done"
              /\ q.status = 403
              /\ q.msg = "You do not have permission to add media to this album"
              /\ q.eff = {}
              /\ UNCHANGED <<albums, media, cloud, nextMedia, nextAsset>>]_vars

C4_Witness ==
    \E s, t \in Slots :
        /\ Done(req[s], "uploadMedia")
        /\ req[s].album.exists
        /\ req[s].user # req[s].album.owner
        /\ req[s].status = 403
        /\ Done(req[t], "uploadMultipleMedia")
        /\ req[t].album.exists
        /\ req[t].user # req[t].album.owner
        /\ req[t].status = 403
        /\ cloud = {}

\* C5: updateMediaItem succeeds only for the item's uploader: the request
\* of any other user is answered 403 'You do not have permission to update
\* this media item' and the item is not saved.
C5_UpdateUploaderOnly ==
    [][\A s \in Slots :
          LET q == req'[s] IN
          (q # req[s] /\ q.op = "updateMediaItem" /\ q.item.exists
             /\ q.user # q.item.uploader) =>
              /\ q.pc = "done"
              /\ q.status = 403
              /\ q.msg = "You do not have permission to update this media item"
              /\ q.eff = {}
              /\ UNCHANGED <<albums, media, cloud>>]_vars

C5_Witness ==
    \E s \in Slots :
        /\ Done(req[s], "updateMediaItem")
        /\ req[s].item.exists
        /\ req[s].user # req[s].item.uploader
        /\ req[s].status = 403
        /\ req[s].arg # req[s].item.title
        /\ media[req[s].mid] = req[s].item

\* C6: an operation addressed by ID whose album or media item does not
\* exist is answered 404, never 403, whoever the requester is: the
\* existence check precedes the permission check.
C6_NotFoundFirst ==
    \A s \in Slots :
        LET r == req[s] IN
        r.pc = "done" =>
            /\ (r.op \in {"getAlbumById", "updateAlbum", "deleteAlbum",
                          "getMediaItemsByAlbum"} /\ ~r.album.exists) =>
                   (r.status = 404 /\ r.msg = "Album not found")
            /\ (IsUpload(r) /\ r.files > 0 /\ ~r.album.exists
                  /\ MulterError(r.input, 1, MaxCountOf(r.op)) = "ok") =>
                   (r.status = 404 /\ r.msg = "Album not found")
            /\ (r.op \in {"getMediaItemById", "updateMediaItem", "deleteMediaItem"}
                  /\ ~r.item.exists) =>
                   (r.status = 404 /\ r.msg = "Media item not found")
            /\ (r.op \in {"getMediaItemById", "deleteMediaItem"}
                  /\ r.item.exists /\ ~r.album.exists) =>
                   (r.status = 404 /\ r.msg = "Album not found")

C6_Witness ==
    \E s, t \in Slots :
        /\ Done(req[s], "updateAlbum")
        /\ ~req[s].album.exists
        /\ req[s].status = 404
        /\ Done(req[t], "deleteMediaItem")
        /\ req[t].item.exists
        /\ ~req[t].album.exists
        /\ req[t].status = 404

\* C7: after a successful deleteAlbum of album A, A no longer exists and no
\* MediaItem with album = A exists, and a getMediaItemById of an item that
\* belonged to A is answered 404.
C7_CascadeComplete ==
    \A s \in Slots :
        LET r == req[s] IN
        /\ (Done(r, "deleteAlbum") /\ r.status = 200) =>
               (~albums[r.aid].exists /\ MediaOfAlbum(r.aid) = {})
        /\ (Done(r, "getMediaItemById") /\ r.item.exists /\ ~r.album.exists) =>
               r.status = 404

\* C8: deleteAlbum is atomic: no step of a deleteAlbum request other than
\* its successful commit changes an album or a media item; the commit
\* removes the album and the matched media items together; and a step that
\* fails aborts the transaction and returns the error with albums and media
\* items as they were.
C8_DeleteAlbumAtomic ==
    [][\A s \in Slots :
          LET r == req[s]
              q == req'[s]
          IN
          (r.op = "deleteAlbum" /\ q.op = "deleteAlbum" /\ q # r) =>
              IF q.pc = "done" /\ q.status = 200
              THEN /\ ~albums'[r.aid].exists
                   /\ \A m \in MediaIds :
                         media'[m] = IF MediaKey(m) \in r.pend THEN NoDoc ELSE media[m]
              ELSE /\ UNCHANGED <<albums, media>>
                   /\ q.pc = "done" => (q.status = 500 /\ "abort" \in q.eff)]_vars

C8_Witness ==
    \E s \in Slots :
        /\ Done(req[s], "deleteAlbum")
        /\ req[s].status = 500
        /\ {"deleteMany", "albumDelete", "abort"} \subseteq req[s].eff
        /\ albums[req[s].aid] = req[s].album
        /\ MediaOfAlbum(req[s].aid) # {}

\* C9: when a media item is deleted by its uploader the request returns
\* 200, the MediaItem document is gone, the album's mediaItems list no
\* longer contains the item's id, and the storage delete-by-ID was invoked
\* exactly once, with the item's stored public id.
C9_DeleteByUploader ==
    \A s \in Slots :
        LET r == req[s] IN
        (Done(r, "deleteMediaItem") /\ r.status = 200
           /\ r.user = r.item.uploader) =>
            /\ ~media[r.mid].exists
            /\ albums[r.aid].exists => ~InList(r.mid, albums[r.aid].mediaItems)
            /\ r.destroyed = <<r.item.cloudinaryPublicId>>

\* C10: when the storage deletion fails after the deleteMediaItem
\* transaction has committed, the failure is not surfaced: the answer is
\* 200 'Media item deleted successfully'.
C10_DestroyFailureHidden ==
    \A s \in Slots :
        LET r == req[s] IN
        (Done(r, "deleteMediaItem") /\ "destroyFailed" \in r.eff) =>
            (r.status = 200 /\ r.msg = "Media item deleted successfully")

\* C11: when the storage deletion fails during deleteMediaItem the local
\* deletion stands: the MediaItem stays deleted, its id stays removed from
\* the album's mediaItems list, and the remote asset is left behind.
C11_LocalDeletionStands ==
    \A s \in Slots :
        LET r == req[s] IN
        (Done(r, "deleteMediaItem") /\ "destroyFailed" \in r.eff) =>
            /\ ~media[r.mid].exists
            /\ albums[r.aid].exists => ~InList(r.mid, albums[r.aid].mediaItems)
            /\ r.item.cloudinaryPublicId \in cloud

\* C12: in deleteMediaItem the storage deletion is issued only after the
\* transaction has committed: as long as the request has not committed, no
\* step of it changes a media item, an album or the storage, and when it
\* ends without a commit after the transaction began, the transaction was
\* aborted, an error is returned and no storage deletion was invoked.
C12_DestroyAfterCommit ==
    [][\A s \in Slots :
          LET r == req[s]
              q == req'[s]
          IN
          (q # r /\ q.op = "deleteMediaItem") =>
              /\ "commit" \notin q.eff =>
                    /\ UNCHANGED <<albums, media, cloud>>
                    /\ q.destroyed = <<>>
                    /\ "cloudDestroy" \notin q.eff
              /\ (q.pc = "done" /\ "commit" \notin q.eff /\ "mediaDelete" \in q.eff) =>
                    ("abort" \in q.eff /\ q.status >= 400)
              /\ "cloudDestroy" \in q.eff => "commit" \in r.eff]_vars

C12_Witness ==
    \E s \in Slots :
        /\ Done(req[s], "deleteMediaItem")
        /\ {"mediaDelete", "albumSave", "abort"} \subseteq req[s].eff
        /\ "commit" \notin req[s].eff
        /\ media[req[s].mid] = req[s].item
        /\ albums[req[s].aid] = req[s].album
        /\ req[s].item.cloudinaryPublicId \in cloud

\* C13: in every reachable state every MediaItem's album reference points
\* to an existing Album.
C13_AlbumReference ==
    \A m \in MediaIds : media[m].exists => albums[media[m].album].exists

Quiescent == \A s \in Slots : req[s].pc \in {"idle", "done"}

\* C14: whenever no request is in progress, an Album's mediaItems list
\* contains the id of a MediaItem exactly when that MediaItem exists and
\* has album equal to this album.
C14_ListConsistent ==
    Quiescent =>
        \A a \in AlbumIds, m \in MediaIds :
            albums[a].exists =>
                (InList(m, albums[a].mediaItems)
                   <=> (media[m].exists /\ media[m].album = a))

\* C17: an upload request that violates a file limit (a part whose MIME
\* type starts with neither image/ nor video/, a part larger than 10MB,
\* more parts than the route takes) is answered 400 by its only step,
\* which looks up no album, calls no storage and writes nothing, also for
\* the valid files of the request.
ViolatesLimit(files, maxCount) ==
    \/ Len(files) > maxCount
    \/ \E i \in 1..Len(files) :
          \/ files[i].mimetype[1] \notin {"image", "video"}
          \/ files[i].size > FileSizeLimit

C17_LimitsBeforeService ==
    [][\A s \in Slots :
          LET q == req'[s] IN
          (q # req[s] /\ IsUpload(q) /\ ViolatesLimit(q.input, MaxCountOf(q.op))) =>
              /\ q.pc = "done"
              /\ q.status = 400
              /\ q.album = NoDoc
              /\ q.eff = {}
              /\ q.made = <<>>
              /\ UNCHANGED <<albums, media, cloud, nextMedia, nextAsset, accepted>>]_vars

C17_Witness ==
    \E s \in Slots :
        /\ Done(req[s], "uploadMultipleMedia")
        /\ Len(req[s].input) = MaxCountMultiple + 1
        /\ \A i \in 1..Len(req[s].input) : req[s].input[i] = GoodFile
        /\ albums[req[s].aid].exists
        /\ albums[req[s].aid].owner = req[s].user
        /\ req[s].status = 400
        /\ req[s].msg = "Too many files or unexpected field name"

\* C18: a multi-file upload has no per-file rollback: the step in which
\* the storage upload or the MediaItem creation of file k fails answers
\* with an error, changes no album and no media item, and ends the request
\* with the files after k unprocessed; the MediaItems of files 1..k-1 still
\* exist and their ids are in the album's list.
C18_NoRollback ==
    [][\A s \in Slots :
          LET r == req[s]
              q == req'[s]
          IN
          (q # r /\ r.op = "uploadMultipleMedia"
             /\ \/ r.pc = "cloudUp" /\ nextAsset' = nextAsset
                \/ r.pc = "create" /\ nextMedia' = nextMedia) =>
              /\ q.pc = "done"
              /\ q.status >= 400
              /\ q.files = r.files
              /\ q.made = r.made
              /\ UNCHANGED <<albums, media>>
              /\ \A i \in 1..Len(q.made) :
                    /\ media'[q.made[i]].exists
                    /\ InList(q.made[i], albums'[q.aid].mediaItems)]_vars

C18_Witness ==
    \E s \in Slots :
        /\ Done(req[s], "uploadMultipleMedia")
        /\ Len(req[s].input) = 3
        /\ Len(req[s].made) = 1
        /\ req[s].files = 2
        /\ req[s].status = 500
        /\ media[req[s].made[1]].exists
        /\ InList(req[s].made[1], albums[req[s].aid].mediaItems)
        /\ Cardinality({m \in MediaIds : media[m].exists}) = 1

\* C19: a multi-file upload processes its files one after another in
\* request order, each through storage upload, MediaItem creation and the
\* append to the album list before the next one starts; when all N files
\* succeed the answer is 201 with exactly the N created items in file
\* order and the count N, and the album list has grown by exactly those
\* N ids.
BatchInOrder(s) ==
    LET r == req[s] IN
    /\ Len(r.made) + r.files = Len(r.input)
    /\ \A i \in 1..Len(r.made) :
          /\ media[r.made[i]].exists
          /\ media[r.made[i]].type = MediaType(r.input[i])
          /\ albums[r.aid].exists
          /\ Len(albums[r.aid].mediaItems) >= Len(r.made)
          /\ LET list == albums[r.aid].mediaItems
             IN list[Len(list) - Len(r.made) + i] = r.made[i]
    /\ (r.pc = "done" /\ r.status = 201) =>
          /\ r.files = 0
          /\ r.data.items = r.made
          /\ r.data.count = Len(r.input)

C19_Sequential ==
    [][\A s \in Slots :
          LET r == req[s]
              q == req'[s]
          IN
          (q # r /\ q.op = "uploadMultipleMedia" /\ r.pc # "done"
             /\ MulterError(q.input, 1, MaxCountMultiple) = "ok") =>
              /\ q.pc = "done" \/ BatchInOrder(s)'
              /\ (q.pc = "done" /\ q.status = 201) => BatchInOrder(s)'
              /\ IF r.pc = "push" /\ q.status \in {0, 201}
                 THEN /\ albums'[r.aid].mediaItems
                           = Append(albums[r.aid].mediaItems, r.mid)
                      /\ q.made = Append(r.made, r.mid)
                 ELSE UNCHANGED albums /\ q.made = r.made
              /\ r.pc = "cloudUp" => q.pc \in {"svcFind", "done"}
              /\ r.pc = "svcFind" => q.pc \in {"create", "done"}
              /\ r.pc = "create" => q.pc \in {"push", "done"}
              /\ r.pc = "push" => q.pc \in {"cloudUp", "done"}]_vars

C19_Witness ==
    \E s \in Slots :
        /\ Done(req[s], "uploadMultipleMedia")
        /\ req[s].status = 201
        /\ Len(req[s].input) = 3
        /\ req[s].input[2] = File("video", "mp4", 1)
        /\ req[s].data.count = 3
        /\ albums[req[s].aid].mediaItems = req[s].made

\* C15: a registration whose email or username is already stored is
\* answered 409 without creating a user, with 'Email already in use' when
\* the email is stored (also when the username is stored as well) and
\* 'Username already taken' when only the username is.
C15_ConflictReported ==
    [][\A s \in Slots :
          LET r == req[s]
              q == req'[s]
              emailTaken == MatchesEmail(q.input.email) # {}
              usernameTaken ==
                  \E i \in 1..Len(users) : users[i].username = q.input.username
          IN  (r.op = "idle" /\ q.op = "register" /\ (emailTaken \/ usernameTaken))
                  => /\ Done(q, "register")
                     /\ q.status = 409
                     /\ q.msg = IF emailTaken THEN "Email already in use"
                                ELSE "Username already taken"
                     /\ users' = users]_vars

\* What a client observes of an answered request.
Observable(r) == <<r.status, r.msg, r.data>>

LoginFailed(r) ==
    /\ Done(r, "login")
    /\ \/ ~r.found.exists
       \/ ~Compare(r.input.password, r.found.password)

Answered401(r, msg) ==
    /\ r.pc = "done"
    /\ r.status = 401
    /\ r.msg = msg
    /\ r.data = NoData
    /\ r.user = 0
    /\ "handler" \notin r.eff

\* C20: a request on a protected route is answered 401 by the first check
\* that fails, in the order: no bearer token, bad signature, expired token,
\* no stored user with the token's user id; the handler runs only when all
\* four pass, with that stored user attached, and never otherwise.
C20_ProtectOrder ==
    [][\A s \in Slots :
          LET r == req[s]
              q == req'[s]
              h == q.input
              noToken == h.scheme # "Bearer" \/ h.token = NoToken
          IN  /\ (r.op = "idle" /\ q.op = "getMe")
                    => IF noToken
                       THEN Answered401(q, "Not authorized, no token provided")
                       ELSE IF h.token.secret # JwtSecret
                       THEN Answered401(q, "Not authorized, invalid token")
                       ELSE IF now >= h.token.exp
                       THEN Answered401(q, "Not authorized, token expired")
                       ELSE q.pc = "findById" /\ q.arg = h.token.userId /\ q.eff = {}
              /\ (r.op = "getMe" /\ r.pc = "findById" /\ q # r)
                    => IF \E i \in 1..Len(users) : users[i].id = r.arg
                       THEN /\ Done(q, "getMe")
                            /\ q.status = 200
                            /\ q.user = r.arg
                            /\ q.data = [kind |-> "user", user |-> UserResponse(users[r.arg])]
                            /\ "handler" \in q.eff
                       ELSE Answered401(q, "Not authorized, user not found")]_vars

C20_Witness ==
    \E s, t \in Slots :
        /\ Done(req[s], "getMe")
        /\ req[s].msg = "Not authorized, invalid token"
        /\ now >= req[s].input.token.exp
        /\ Done(req[t], "getMe")
        /\ "handler" \in req[t].eff
        /\ req[t].user \in 1..Len(users)

\* C21: the owner of an album is the requester of the createAlbum that
\* made it, and no step changes the owner of an existing album, whatever
\* body an updateAlbum carries (an owner or mediaItems key included).
C21_OwnerImmutable ==
    [][\A a \in AlbumIds :
          /\ (albums[a].exists /\ albums'[a].exists)
                => albums'[a].owner = albums[a].owner
          /\ (~albums[a].exists /\ albums'[a].exists)
                => \E s \in Slots :
                      /\ req[s].op = "idle"
                      /\ Done(req'[s], "createAlbum")
                      /\ req'[s].aid = a
                      /\ albums'[a].owner = req'[s].user]_vars

C21_Witness ==
    \E s \in Slots :
        LET r == req[s]
        IN  /\ Done(r, "updateAlbum")
            /\ r.status = 200
            /\ {"owner", "mediaItems", "isPublic"} \subseteq DOMAIN r.input
            /\ r.input.owner # r.user
            /\ r.input.isPublic # r.album.isPublic
            /\ albums[r.aid].exists
            /\ albums[r.aid].owner = r.user
            /\ albums[r.aid].isPublic = r.input.isPublic

ListedIds(data) == {data.albums[i].id : i \in 1..Len(data.albums)}

\* C22: GET /albums answers 200 with exactly the stored albums that the
\* requester owns or that are public, and GET /albums/my with exactly
\* those the requester owns, each as it is stored.
C22_ListsExact ==
    [][\A s \in Slots :
          LET q == req'[s]
              listed == ListedIds(q.data)
          IN  (req[s].op = "idle" /\ q.op \in {"getAlbums", "getMyAlbums"})
                  => /\ q.pc = "done"
                     /\ q.status = 200
                     /\ q.data.kind = "albums"
                     /\ Cardinality(listed) = Len(q.data.albums)
                     /\ \A i \in 1..Len(q.data.albums) :
                           q.data.albums[i] = albums[q.data.albums[i].id]
                     /\ listed =
                           {a \in AlbumIds :
                               /\ albums[a].exists
                               /\ \/ albums[a].owner = q.user
                                  \/ q.op = "getAlbums" /\ albums[a].isPublic}
                     /\ UNCHANGED albums]_vars

C22_Witness ==
    \E s, t \in Slots, a, b \in AlbumIds :
        /\ Done(req[s], "getAlbums")
        /\ Done(req[t], "getMyAlbums")
        /\ req[s].user = req[t].user
        /\ albums[a].exists /\ albums[a].owner # req[s].user /\ ~albums[a].isPublic
        /\ albums[b].exists /\ albums[b].owner # req[s].user /\ albums[b].isPublic
        /\ ListedIds(req[s].data) = {b}
        /\ ListedIds(req[t].data) = {}

\* C23: no step of a deleteAlbum request changes external storage or
\* issues a storage deletion, and when the request succeeds the assets of
\* all media items it deleted are still stored.
C23_DeleteAlbumKeepsAssets ==
    [][\A s \in Slots :
          LET r == req[s]
              q == req'[s]
          IN  (q.op = "deleteAlbum" /\ q # r)
                  => /\ cloud' = cloud
                     /\ q.destroyed = <<>>
                     /\ "cloudDestroy" \notin q.eff
                     /\ (q.pc = "done" /\ q.status = 200)
                           => \A m \in MediaIds :
                                 (media[m].exists /\ ~media'[m].exists)
                                     => media[m].cloudinaryPublicId \in cloud']_vars

C23_Witness ==
    \E s \in Slots, m \in MediaIds :
        /\ Done(req[s], "deleteAlbum")
        /\ req[s].status = 200
        /\ InList(m, req[s].album.mediaItems)
        /\ ~media[m].exists
        /\ ~albums[req[s].aid].exists
        /\ cloud # {}
        /\ \A x \in cloud, i \in MediaIds :
              ~(media[i].exists /\ media[i].cloudinaryPublicId = x)

\* C24: in a multi-file upload the album's existence and the requester's
\* ownership are checked before the first file only: once a file of the
\* request has been stored, no later file of it is refused because the
\* album is missing or owned by someone else.
C24_CheckedOnce ==
    [][\A s \in Slots :
          LET r == req[s]
              q == req'[s]
          IN  (r.op = "uploadMultipleMedia" /\ r.pc # "done" /\ q # r
                 /\ Len(r.made) >= 1)
                  => ~(q.pc = "done" /\ q.status \in {403, 404})]_vars

\* C25: every media item whose album exists was uploaded by the owner of
\* that album, so a deleteMediaItem that succeeds was sent by the one user
\* who is both the item's uploader and the album's owner.
C25_UploaderIsOwner ==
    /\ \A m \in MediaIds :
          (media[m].exists /\ albums[media[m].album].exists)
              => media[m].uploader = albums[media[m].album].owner
    /\ \A s \in Slots :
          LET r == req[s]
          IN  (Done(r, "deleteMediaItem") /\ r.status = 200)
                  => /\ r.user = r.item.uploader
                     /\ r.user = r.album.owner

C25_Witness ==
    \E s, t \in Slots, m \in MediaIds :
        /\ media[m].exists
        /\ albums[media[m].album].exists
        /\ media[m].uploader = albums[media[m].album].owner
        /\ Done(req[s], "updateAlbum")
        /\ req[s].status = 200
        /\ req[s].aid = media[m].album
        /\ Done(req[t], "deleteMediaItem")
        /\ req[t].mid = m
        /\ req[t].user # media[m].uploader
        /\ req[t].status = 403

\* C26: in an upload the asset is stored externally before the MediaItem
\* is written, and when createMediaItem then fails (album lookup, creation
\* or album save) the request is answered with an error, no storage
\* deletion is issued, and the asset stays in external storage while no
\* album list refers to an item holding it.
C26_NoCompensation ==
    [][\A s \in Slots :
          LET r == req[s]
              q == req'[s]
          IN  /\ (IsUpload(r) /\ q # r /\ media' # media)
                    => /\ "cloudUpload" \in r.eff
                       /\ r.asset \in cloud
                       /\ \E m \in MediaIds :
                             /\ ~media[m].exists
                             /\ media'[m].exists
                             /\ media'[m].cloudinaryPublicId = r.asset
              /\ (IsUpload(r) /\ r.pc \in {"svcFind", "create", "push"}
                    /\ q.pc = "done" /\ q.made = r.made)
                    => /\ q.status >= 400
                       /\ q.data = NoData
                       /\ cloud' = cloud
                       /\ r.asset \in cloud'
                       /\ q.destroyed = <<>>
                       /\ "cloudDestroy" \notin q.eff
                       /\ \A a \in AlbumIds, m \in MediaIds :
                             (albums'[a].exists /\ InList(m, albums'[a].mediaItems)
                                /\ media'[m].exists)
                                 => media'[m].cloudinaryPublicId # r.asset]_vars

C26_Witness ==
    \E s \in Slots :
        LET r == req[s]
        IN  /\ Done(r, "uploadMultipleMedia")
            /\ r.status >= 400
            /\ Len(r.made) = 1
            /\ {"cloudUpload", "mediaCreate"} \subseteq r.eff
            /\ r.asset \in cloud
            /\ ~albums[r.aid].exists
            /\ \E m \in MediaIds :
                  /\ media[m].exists
                  /\ media[m].cloudinaryPublicId = r.asset
                  /\ ~InList(m, r.made)

\* C27: of two deleteMediaItem requests that both found the same media
\* item, at most one invokes the storage deletion of its public id and at
\* most one is answered 'Media item deleted successfully'.
C27_DeleteOnce ==
    \A s, t \in Slots :
        LET r == req[s]
            q == req[t]
        IN  (s # t /\ r.op = "deleteMediaItem" /\ q.op = "deleteMediaItem"
               /\ r.mid = q.mid /\ r.item.exists /\ q.item.exists)
                => /\ Len(r.destroyed) + Len(q.destroyed) <= 1
                   /\ ~(Done(r, "deleteMediaItem") /\ r.status = 200
                          /\ Done(q, "deleteMediaItem") /\ q.status = 200)

PassedPreCheck(r) == Done(r, "register") /\ ~r.found.exists

\* C28: no two stored users share an email or a username; a registration
\* that passed the lookup creates a user and is answered 201, or creates
\* none and is answered 409, and of two such registrations with the same
\* email or the same username at most one creates a user.
C28_UniqueUsers ==
    /\ \A i, j \in 1..Len(users) :
          i # j => /\ users[i].email # users[j].email
                   /\ users[i].username # users[j].username
    /\ \A s \in Slots :
          PassedPreCheck(req[s])
              => IF "userCreate" \in req[s].eff
                 THEN req[s].status = 201
                 ELSE req[s].status = 409 /\ req[s].data = NoData
    /\ \A s, t \in Slots :
          (s # t /\ PassedPreCheck(req[s]) /\ PassedPreCheck(req[t])
             /\ \/ req[s].input.email = req[t].input.email
                \/ req[s].input.username = req[t].input.username)
              => ~("userCreate" \in req[s].eff /\ "userCreate" \in req[t].eff)

C28_Witness ==
    \E s, t \in Slots :
        /\ PassedPreCheck(req[s])
        /\ PassedPreCheck(req[t])
        /\ req[s].input.email = req[t].input.email
        /\ req[s].input.username # req[t].input.username
        /\ req[s].status = 201
        /\ req[t].status = 409
        /\ req[t].msg = "Email already exists"
        /\ Len(users) = 1

ReadOps == {"getAlbumById", "getMediaItemsByAlbum", "getMediaItemById"}

\* C29: a visibility change is in effect for every request after it: when
\* an updateAlbum setting isPublic to p is answered 200 the album is stored
\* with isPublic = p, its visibility then stays as it is until another
\* updateAlbum is answered, and a read of the album or of one of its items
\* by a non-owner is refused with 403 exactly when the stored album is
\* private at the time the read loads it.
C29_VisibilityTakesEffect ==
    [][\A s \in Slots :
          LET r == req[s]
              q == req'[s]
          IN  /\ (r.op = "updateAlbum" /\ q # r /\ q.pc = "done" /\ q.status = 200
                    /\ "isPublic" \in DOMAIN q.arg)
                    => /\ albums'[q.aid].exists
                       /\ albums'[q.aid].isPublic = q.arg.isPublic
              /\ (q.op \in ReadOps /\ q # r /\ ~r.album.exists /\ q.album.exists)
                    => /\ q.album = albums[q.aid]
                       /\ q.user # q.album.owner
                             => IF q.album.isPublic
                                THEN ~(q.pc = "done" /\ q.status = 403)
                                ELSE q.pc = "done" /\ q.status = 403
              /\ \A a \in AlbumIds :
                    (albums[a].exists /\ albums'[a].exists
                       /\ albums'[a].isPublic # albums[a].isPublic)
                        => \E t \in Slots :
                              /\ req[t].op = "updateAlbum"
                              /\ req[t].aid = a
                              /\ Done(req'[t], "updateAlbum")
                              /\ req'[t].status = 200]_vars

Orphan(m) == media[m].exists /\ ~albums[media[m].album].exists

\* C30: a media item whose album no longer exists is refused to every
\* requester: getMediaItemById and deleteMediaItem answer 404 'Album not
\* found' and change nothing; and no step of any request removes such an
\* item or its stored asset.
C30_OrphanPersists ==
    [][/\ \A s \in Slots :
             LET r == req[s]
                 q == req'[s]
             IN  (r.op \in {"getMediaItemById", "deleteMediaItem"}
                    /\ r.pc = "findAlbum" /\ q # r /\ Orphan(r.mid))
                     => /\ q.pc = "done"
                        /\ q.status = 404
                        /\ q.msg = "Album not found"
                        /\ q.data = NoData
                        /\ UNCHANGED <<albums, media, cloud>>
       /\ \A m \in MediaIds :
             Orphan(m) => /\ media'[m].exists
                          /\ media[m].cloudinaryPublicId \in cloud
                                => media[m].cloudinaryPublicId \in cloud']_vars

====
